---- MODULE Spec2Model ----
(***************************************************************************)
(* Model of the LinkedIn job scraper of src/Anika.py.  The file holds two  *)
(* variants of the same classes: "Anika" (lines 1-605) and "JobBot"        *)
(* (lines 607-917).  The variable `variant' selects which one runs.        *)
(*                                                                         *)
(* Text values that the code inspects (postedTime, applicationsCount) are  *)
(* sequences of tokens, a job URL is a record of its lexical parts, and    *)
(* durations of sleeps are ranges [lo, hi] in tenths of a second.          *)
(***************************************************************************)
EXTENDS Integers, Sequences, FiniteSets, TLC

\* ------------------------------------------------------------------ bounds
MaxLimit == 2
MaxPages == 4
MaxSearches == 2
MaxCalls == 4
MaxProxies == 3
MaxRequests == 2
MaxSortLen == 3
MaxTimeNumber == 24
MaxCards == 3
MaxTermLimit == 1

\* ------------------------------------------------------- program constants
SENTINEL == 999999
EMPTY_PAGE_STEP == 25
MAX_EMPTY_PAGES == 3
RAW_FACTOR == 10

Variants == {"Anika", "JobBot"}

\* mutant: one attempt too many, range(self.max_retries + 1)
max_retries_plus_one(v) == IF v = "Anika" THEN 6 ELSE 4

max_retries(v) == IF v = "Anika" THEN 5 ELSE 3
retry_delay(v) == IF v = "Anika" THEN 10 ELSE 5
backoff_factor(v) == 2
\* mutant: the Anika variant keeps the 60 s of the variant it was copied from
cooldown_copied(v) == 60

cooldown(v) == IF v = "Anika" THEN 120 ELSE 60
\* random.uniform(a, b) of the backoff jitter, in tenths of a second
jitter(v) == IF v = "Anika" THEN [lo |-> 20, hi |-> 50] ELSE [lo |-> 0, hi |-> 10]

RECURSIVE SeqsUpTo(_, _)
SeqsUpTo(S, n) ==
    IF n = 0 THEN {<<>>}
    ELSE LET shorter == SeqsUpTo(S, n - 1)
         IN  shorter \cup {Append(q, x) : q \in {r \in shorter : Len(r) = n - 1}, x \in S}

Range(q) == {q[k] : k \in 1..Len(q)}

RECURSIVE Pow(_, _)
Pow(b, e) == IF e = 0 THEN 1 ELSE b * Pow(b, e - 1)

\* ------------------------------------------------------------ ProxyRotator
Endpoints == {"p1", "p2", "p3"}
NoProxy == "None"

NewRotator(ps) == [proxies |-> ps, current_index |-> 0, failed_proxies |-> {}]

\* mutant: the failed endpoints are not filtered out
get_next_proxy_unfiltered(r) ==
    IF r.proxies = <<>>
    THEN [ret |-> NoProxy, rot |-> r]
    ELSE [ret |-> r.proxies[(r.current_index % Len(r.proxies)) + 1],
          rot |-> [r EXCEPT !.current_index = @ + 1]]

\* get_next_proxy: the endpoint returned (NoProxy for None) and the rotator after
get_next_proxy(r) ==
    IF r.proxies = <<>>
    THEN [ret |-> NoProxy, rot |-> r]
    ELSE LET live == SelectSeq(r.proxies, LAMBDA p : p \notin r.failed_proxies)
             allFailed == live = <<>>
             available == IF allFailed THEN r.proxies ELSE live
             proxy == available[(r.current_index % Len(available)) + 1]
         IN  [ret |-> proxy,
              rot |-> [r EXCEPT !.failed_proxies = IF allFailed THEN {} ELSE @,
                                !.current_index = @ + 1]]

mark_failed(r, proxy) == [r EXCEPT !.failed_proxies = @ \cup {proxy}]

\* ------------------------------------------------------------------- text
\* A text is a sequence of tokens: a run of digits (isnum, n) or a word (w).
Num(k) == [isnum |-> TRUE, n |-> k, w |-> ""]
Word(x) == [isnum |-> FALSE, n |-> 0, w |-> x]

\* str.lower() on the words the model uses
Lower(x) ==
    CASE x = "Be among the first" -> "be among the first"
      [] x = "Hours" -> "hours"
      [] x = "Minute" -> "minute"
      [] x = "Day" -> "day"
      [] x = "Week" -> "week"
      [] x = "Month" -> "month"
      [] OTHER -> x

\* the keywords the parsers look for that occur inside a (lower-case) word
Keywords(x) ==
    CASE x \in {"minute", "minutes"} -> {"minute"}
      [] x \in {"hour", "hours"} -> {"hour"}
      [] x \in {"day", "days", "today"} -> {"day"}
      [] x \in {"week", "weeks"} -> {"week"}
      [] x \in {"month", "months"} -> {"month"}
      [] x = "be among the first" -> {"be among the first"}
      [] OTHER -> {}

\* `kw in text.lower()'
Contains(text, kw) ==
    \E i \in 1..Len(text) : ~text[i].isnum /\ kw \in Keywords(Lower(text[i].w))

\* re.search(r'(\d+)', text): <<n>> for the first run of digits, <<>> for no match
SearchDigits(text) ==
    LET idx == {i \in 1..Len(text) : text[i].isnum}
    IN  IF idx = {} THEN <<>>
        ELSE <<text[CHOOSE i \in idx : \A j \in idx : i <= j].n>>

\* a slip in one multiplier: 1400 for the 1440 minutes of a day
_parse_time_to_minutes_day_1400(time_str) ==
    IF time_str = <<>> THEN SENTINEL
    ELSE LET m == SearchDigits(time_str)
         IN  IF m = <<>> THEN SENTINEL
             ELSE IF Contains(time_str, "minute") THEN m[1]
             ELSE IF Contains(time_str, "hour") THEN m[1] * 60
             ELSE IF Contains(time_str, "day") THEN m[1] * 1400
             ELSE IF Contains(time_str, "week") THEN m[1] * 10080
             ELSE IF Contains(time_str, "month") THEN m[1] * 43200
             ELSE SENTINEL

_parse_time_to_minutes(time_str) ==
    IF time_str = <<>> THEN SENTINEL
    ELSE LET m == SearchDigits(time_str)
         IN  IF m = <<>> THEN SENTINEL              \* AttributeError caught
             ELSE IF Contains(time_str, "minute") THEN m[1]
             ELSE IF Contains(time_str, "hour") THEN m[1] * 60
             ELSE IF Contains(time_str, "day") THEN m[1] * 1440
             ELSE IF Contains(time_str, "week") THEN m[1] * 10080
             ELSE IF Contains(time_str, "month") THEN m[1] * 43200
             ELSE SENTINEL

\* _parse_applicant_count: [raised, val]; only the JobBot variant can raise
\* (AttributeError of None.group at line 716, no try around it)
_parse_applicant_count(v, count_str) ==
    IF count_str = <<>> THEN [raised |-> FALSE, val |-> 0]
    ELSE LET m == SearchDigits(count_str)
         IN  IF Contains(count_str, "be among the first")
             THEN IF m # <<>> THEN [raised |-> FALSE, val |-> m[1]]
                  ELSE IF v = "Anika" THEN [raised |-> FALSE, val |-> 0]
                  ELSE [raised |-> TRUE, val |-> 0]
             ELSE [raised |-> FALSE, val |-> IF m # <<>> THEN m[1] ELSE 0]

\* ---------------------------------------------------------------- records
JobFields ==
    {"title", "location", "postedTime", "publishedAt", "jobUrl", "companyName",
     "companyUrl", "companyId", "applicationsCount", "description",
     "contractType", "experienceLevel", "workType", "sector", "salary",
     "posterFullName", "posterProfileUrl", "applyUrl", "applyType", "benefits"}

\* A URL: its text, whether "-<digits>" occurs in it, and whether these digits
\* are followed by "?" (otherwise they end the URL).
Url(text, hasId, hasQuery) == [text |-> text, id |-> hasId, query |-> hasQuery]
EmptyUrl == Url("", FALSE, FALSE)

\* re.search(r'[^-]*-(\d+)(?:\?|$)', job_url) / re.search(r'-(\d+)\?', job_url)
job_id_match(v, job_url) ==
    IF v = "Anika" THEN job_url.id ELSE job_url.id /\ job_url.query

\* dict.update
Update(job, details) ==
    [f \in DOMAIN job \cup DOMAIN details |->
        IF f \in DOMAIN details THEN details[f] ELSE job[f]]

\* One <li> of a result page.  applicant is <<text>> when one of the two
\* applicant spans is present and <<>> when neither is.
Card(base, link, url, easy, posted, applicant) ==
    [base_card |-> base, link_tag |-> link, href |-> url, easy_apply_tag |-> easy,
     time_tag |-> posted, applicant_tag |-> applicant]

\* the record built for one accepted card
JobOfCard(v, card, job_url) ==
    [f \in JobFields |->
        CASE f = "postedTime" -> card.time_tag
          [] f = "jobUrl" -> job_url
          [] f = "applyUrl" -> job_url
          [] f = "applicationsCount" ->
                IF card.applicant_tag # <<>> THEN card.applicant_tag[1]
                ELSE <<Num(0), Word("applicants")>>
          [] f = "applyType" ->
                IF v = "Anika"
                THEN (IF card.easy_apply_tag THEN "EASY_APPLY" ELSE "UNKNOWN")
                ELSE ""
          [] f = "description" -> <<>>
          [] OTHER -> ""]

RECURSIVE ParseCards(_, _)
ParseCards(v, cards) ==
    IF cards = <<>> THEN <<>>
    ELSE LET card == Head(cards)
             job_url == IF card.link_tag THEN card.href ELSE EmptyUrl
         IN  IF ~card.base_card \/ ~job_id_match(v, job_url)
             THEN ParseCards(v, Tail(cards))
             ELSE <<JobOfCard(v, card, job_url)>> \o ParseCards(v, Tail(cards))

\* A result page: whether <ul class="jobs-search__results-list"> is present,
\* and its <li> items.  Only the Anika variant looks for the container.
_parse_job_list(v, html) ==
    IF v = "Anika" /\ ~html.container THEN <<>> ELSE ParseCards(v, html.cards)

\* A detail page: description text (a sequence of characters), the apply
\* button ("none", "easy", "plain"), the top card's first link with an href
\* ("none", "linkedin", "offsite") and whether the top card holds a link with
\* data-tracking-control-name = public_jobs_apply_external.
Detail(desc, button, first_link, tracked) ==
    [description |-> desc, apply_button |-> button, first_link |-> first_link,
     tracked_link |-> tracked]

\* the details dict of a fetched detail page (criteria list and salary
\* container absent from the pages the model serves)
ParseDetail(v, page) ==
    LET base == [f \in {"description", "salary"} |->
                    IF f = "description" THEN page.description ELSE ""]
        withType(t) == Update(base, [f \in {"applyType"} |-> t])
    IN  IF page.apply_button # "none"
        THEN withType(IF page.apply_button = "easy" THEN "EASY_APPLY" ELSE "EXTERNAL")
        ELSE IF v = "Anika"
             THEN withType(IF page.tracked_link THEN "EXTERNAL" ELSE "UNKNOWN")
             ELSE IF page.first_link = "offsite" THEN withType("EXTERNAL") ELSE base

\* ------------------------------------------------------------------- sort
SortKey(v, job) ==
    <<_parse_time_to_minutes(job["postedTime"]),
      _parse_applicant_count(v, job["applicationsCount"]).val>>

KeyLE(a, b) == a[1] < b[1] \/ (a[1] = b[1] /\ a[2] <= b[2])

KeyLT(a, b) == a[1] < b[1] \/ (a[1] = b[1] /\ a[2] < b[2])

\* an insertion that is not stable: x goes before the elements with its key
RECURSIVE Insert_before_equal(_, _, _)
Insert_before_equal(v, x, s) ==
    IF s = <<>> THEN <<x>>
    ELSE IF KeyLT(SortKey(v, Head(s)), SortKey(v, x))
         THEN <<Head(s)>> \o Insert_before_equal(v, x, Tail(s))
         ELSE <<x>> \o s

\* stable insertion: x goes after every element whose key is <= its own
RECURSIVE Insert(_, _, _)
Insert(v, x, s) ==
    IF s = <<>> THEN <<x>>
    ELSE IF KeyLE(SortKey(v, Head(s)), SortKey(v, x))
         THEN <<Head(s)>> \o Insert(v, x, Tail(s))
         ELSE <<x>> \o s

\* list.sort(key = (minutes, applicants)): stable, ascending
RECURSIVE SortJobs(_, _)
SortJobs(v, s) ==
    IF s = <<>> THEN <<>>
    ELSE Insert(v, s[Len(s)], SortJobs(v, SubSeq(s, 1, Len(s) - 1)))

\* whether computing the sort keys of these jobs raises
SortRaises(v, s) ==
    \E i \in 1..Len(s) : _parse_applicant_count(v, s[i]["applicationsCount"]).raised


\* ------------------------------------------------------------ the server
\* Outcomes of one HTTP GET: a status code, a redirect to the auth wall, or
\* an exception of the requests library.
Outcomes ==
    {"ok", "s429", "s403", "s999", "authwall", "s500",
     "proxyerr", "timeout", "connerr", "reqexc"}

T_2hours == <<Num(2), Word("Hours"), Word("ago")>>
T_1day == <<Num(1), Word("day"), Word("ago")>>
T_justnow == <<Word("Just"), Word("now")>>
A_first25 == <<Word("Be among the first"), Num(25), Word("applicants")>>
A_first == <<Word("Be among the first"), Word("applicants")>>

Card1 == Card(TRUE, TRUE, Url("view/analyst-101?refId=a", TRUE, TRUE), TRUE,
              T_2hours, <<A_first25>>)
Card2 == Card(TRUE, TRUE, Url("view/analyst-102?refId=b", TRUE, TRUE), FALSE,
              T_1day, <<>>)
Card3 == Card(TRUE, TRUE, Url("view/analyst-101?refId=a", TRUE, TRUE), TRUE,
              T_justnow, <<A_first>>)
Card4 == Card(TRUE, FALSE, EmptyUrl, TRUE, T_1day, <<>>)
\* a third posting with the posted time and applicant text of Card1, and one
\* posted MaxTimeNumber months ago
T_old == <<Num(MaxTimeNumber), Word("months"), Word("ago")>>
Card5 == Card(TRUE, TRUE, Url("view/analyst-103?refId=c", TRUE, TRUE), TRUE,
              T_2hours, <<A_first25>>)
Card6 == Card(TRUE, TRUE, Url("view/analyst-104?refId=d", TRUE, TRUE), TRUE,
              T_old, <<>>)
CardPool == {Card1, Card2, Card3, Card4}

\* a page of RAW_FACTOR + 1 records without an Easy Apply label
LongPage == [container |-> TRUE, cards |-> [i \in 1..(RAW_FACTOR + 1) |-> Card2]]

\* the result pages the server may answer with: no item, two records with an
\* Easy Apply label, a record without the label beside an item without a
\* link, a page without the <ul> container, and the long page
PagePool ==
    {[container |-> TRUE, cards |-> <<>>],
     [container |-> TRUE, cards |-> <<Card1, Card3>>],
     [container |-> TRUE, cards |-> <<Card2, Card4>>],
     [container |-> FALSE, cards |-> <<Card3>>],
     LongPage}

\* the detail pages the server may answer with
DetailPool ==
    {Detail(<<"d", "d">>, "easy", "none", FALSE),
     Detail(<<"d">>, "plain", "none", FALSE),
     Detail(<<>>, "none", "offsite", FALSE)}

\* ------------------------------------------------------------------ state
VARIABLES
    variant,        \* which variant of the program runs
    proxy_rotator,  \* self.proxy_rotator: <<>> for None, <<rotator>> otherwise
    pc,             \* position of the single thread of control
    req,            \* the running _make_request call
    search,         \* the locals of the running search_jobs call
    main,           \* the locals of __main__
    hist            \* what happened so far: sleeps, GETs, fetches

vars == <<variant, proxy_rotator, pc, req, search, main, hist>>

None == <<>>

NoSleep == [kind |-> "none", lo |-> 0, hi |-> 0]

\* time.sleep(random.uniform(lo, hi)) of search_jobs and __main__, in tenths
\* of a second; the politeness sleeps are the ones of kind "detail" and "page"
Sleep(h, kind, lo, hi) ==
    [h EXCEPT !.last_sleep = [kind |-> kind, lo |-> lo, hi |-> hi],
              !.slept_since_page = @ \/ kind \in {"detail", "page"},
              !.slept_since_detail = @ \/ kind \in {"detail", "page"}]

\* time.sleep of _make_request: the backoff delay and the 429 cooldown
ReqSleep(r, kind, lo, hi) ==
    [r EXCEPT !.slept = [kind |-> kind, lo |-> lo, hi |-> hi]]

\* the frame of _make_request: its locals, the GETs it has issued (gets, oks,
\* last outcome) and the last sleep it took; InitReq when no call is running
InitReq == [kind |-> "none", attempt |-> 0, proxies |-> NoProxy, response |-> None,
            raised |-> FALSE, gets |-> 0, last |-> "none", slept |-> NoSleep]

InitSearch ==
    [limit |-> 0, easy_apply_only |-> FALSE, detailed_jobs |-> <<>>,
     start_index |-> 0, jobs_processed_from_raw_list |-> 0,
     consecutive_empty_pages |-> 0, jobs_on_page |-> <<>>, i |-> 1,
     ret |-> None, raised |-> FALSE]

InitMain ==
    [limit |-> 0, easy_apply_only |-> FALSE, output_directory |-> "P:",
     search_no |-> 0, all_scraped_jobs |-> <<>>, final_jobs |-> <<>>,
     json_file |-> None, csv_file |-> None]

\* Since the last return of an endpoint (open): the endpoints returned since
\* (got) and the ones that were never in the failed set since (intact).
NoRound == [open |-> FALSE, got |-> {}, intact |-> {}]

\* the rotator and the round-robin history as a get_next_proxy call found them
NoBefore == [rot |-> NewRotator(<<>>), rr |-> [e \in Endpoints |-> NoRound]]

\* the offset of the last page request of a search when there was none yet
NoOffset == 0 - 1

\* what happened so far; makedirs is the outcome of os.makedirs ("none", "ok",
\* "failed"), fn, arg and out are the last parser applied on its own,
\* last_start is the offset of the last page request of the running search and
\* page_cap is the number of page requests a search is followed for
InitHist ==
    [last_sleep |-> NoSleep, slept_since_page |-> FALSE, slept_since_detail |-> FALSE,
     pages |-> 0, details |-> 0, page_failed |-> FALSE, empty_run |-> 0, calls |-> 0,
     ret |-> NoProxy, rr |-> [e \in Endpoints |-> NoRound], before |-> NoBefore,
     makedirs |-> "none", fn |-> "none", arg |-> <<>>, out |-> <<>>,
     last_start |-> NoOffset, page_cap |-> MaxPages]

\* ----------------------------------------------------------- _make_request
\* the exception the try body raises on outcome o ("" for none): the GET
\* raises, or (JobBot) raise_for_status raises HTTPError on a 4xx or 5xx status
Raised(v, o) ==
    CASE o = "proxyerr" -> "ProxyError"
      [] o = "timeout" -> "Timeout"
      [] o = "connerr" -> "ConnectionError"
      [] o = "reqexc" -> "RequestException"
      [] o \in {"s403", "s500"} /\ v = "JobBot" -> "HTTPError"
      [] OTHER -> ""

\* the classes of requests.exceptions an exception class is an instance of
Ancestors(c) ==
    CASE c = "ProxyError" -> {"ProxyError", "ConnectionError", "RequestException", "Exception"}
      [] c = "ConnectionError" -> {"ConnectionError", "RequestException", "Exception"}
      [] c = "Timeout" -> {"Timeout", "RequestException", "Exception"}
      [] c = "HTTPError" -> {"HTTPError", "RequestException", "Exception"}
      [] c = "RequestException" -> {"RequestException", "Exception"}
      [] OTHER -> {}

\* the except clauses of _make_request, in order
ExceptClauses(v) ==
    IF v = "Anika"
    THEN <<"ProxyError", "Timeout", "ConnectionError", "RequestException", "Exception">>
    ELSE <<"ProxyError", "RequestException">>

\* the clauses whose body calls mark_failed
MarkingClauses(v) ==
    IF v = "Anika" THEN {"ProxyError", "Timeout", "ConnectionError"} ELSE {"ProxyError"}

\* the first except clause that matches the exception raised on outcome o,
\* "" when nothing is raised, "uncaught" when no clause matches
Clause(v, o) ==
    LET cs == ExceptClauses(v)
        hit == {k \in 1..Len(cs) : cs[k] \in Ancestors(Raised(v, o))}
    IN  IF Raised(v, o) = "" THEN ""
        ELSE IF hit = {} THEN "uncaught"
        ELSE cs[CHOOSE k \in hit : \A j \in hit : k <= j]

\* what the variant's code does with the outcome of one GET: whether it
\* returns the response, sleeps the 429 cooldown, marks the proxy as failed
Returns(v, o) ==
    IF v = "Anika" THEN o = "ok"
    ELSE o \in {"ok", "s999", "authwall"}   \* raise_for_status raises on 4xx, 5xx only

CoolsDown(v, o) == o = "s429"

Marks(v, o) ==
    \/ v = "Anika" /\ o \in {"s429", "s403", "s999", "authwall"}
    \/ Clause(v, o) \in MarkingClauses(v)

\* the exponent one too high: backoff_factor ** attempt
backoff_delay_exponent_attempt(v, attempt) == retry_delay(v) * Pow(backoff_factor(v), attempt)

\* self.retry_delay * (self.backoff_factor ** (attempt - 1)), for attempt > 0
backoff_delay(v, attempt) == retry_delay(v) * Pow(backoff_factor(v), attempt - 1)

\* the caller's position a finished _make_request returns to
ReturnTo(kind) ==
    CASE kind = "page" -> "page_resp"
      [] kind = "detail" -> "detail_resp"
      [] OTHER -> "call_done"

\* a call of _make_request(url) begins
StartRequest(kind) ==
    [InitReq EXCEPT !.kind = kind]

\* head of `for attempt in range(self.max_retries)': the loop ends and None is
\* returned, or the attempt takes the next proxy and sleeps the backoff delay
ReqLoop ==
    /\ pc = "req_loop"
    /\ IF req.attempt >= max_retries(variant)
       THEN /\ req' = [req EXCEPT !.response = None]
            /\ pc' = ReturnTo(req.kind)
            /\ UNCHANGED proxy_rotator
       ELSE LET next == IF proxy_rotator = None
                        THEN [ret |-> NoProxy, rot |-> None]
                        ELSE LET g == get_next_proxy(proxy_rotator[1])
                             IN  [ret |-> g.ret, rot |-> <<g.rot>>]
                taken == [req EXCEPT !.proxies = next.ret]
            IN  /\ proxy_rotator' = next.rot
                /\ req' = IF req.attempt > 0
                          THEN LET base == backoff_delay(variant, req.attempt) * 10
                               IN  ReqSleep(taken, "backoff", base + jitter(variant).lo,
                                            base + jitter(variant).hi)
                          ELSE taken
                /\ pc' = "req_get"
    /\ UNCHANGED <<variant, search, main, hist>>

\* one GET and the handling of its outcome o; html is the body of a response
\* the code accepts
ReqGet(o, html) ==
    /\ pc = "req_get"
    /\ LET marked == IF Marks(variant, o) /\ req.proxies # NoProxy /\ proxy_rotator # None
                     THEN <<mark_failed(proxy_rotator[1], req.proxies)>>
                     ELSE proxy_rotator
           got == [req EXCEPT !.gets = @ + 1, !.last = o]
       IN  IF Returns(variant, o)
           THEN /\ req' = [got EXCEPT !.response = <<html>>]
                /\ pc' = ReturnTo(req.kind)
                /\ UNCHANGED proxy_rotator
           ELSE IF Clause(variant, o) = "uncaught"
           THEN /\ req' = [got EXCEPT !.raised = TRUE]
                /\ pc' = "crashed"
                /\ UNCHANGED proxy_rotator
           ELSE /\ req' = [(IF CoolsDown(variant, o)
                             THEN ReqSleep(got, "cooldown", cooldown(variant) * 10,
                                           cooldown(variant) * 10)
                             ELSE got) EXCEPT !.attempt = @ + 1]
                /\ proxy_rotator' = marked
                /\ pc' = "req_loop"
    /\ UNCHANGED <<variant, search, main, hist>>

\* the body the server sends with outcome o: any page of the kind requested
\* when the code will read it, and no body that matters otherwise
Bodies(v, kind, o) ==
    IF ~Returns(v, o) THEN {None}
    ELSE IF kind = "detail" THEN DetailPool ELSE PagePool

Get ==
    \E o \in Outcomes : \E html \in Bodies(variant, req.kind, o) : ReqGet(o, html)


\* -------------------------------------------------------------- search_jobs
\* mutant: `<=' for `<' in the test of the number of accepted records, so
\* that the loop goes on when limit records are accepted
LoopCondition_len_le(v, sj) ==
    IF v = "Anika"
    THEN /\ sj.jobs_processed_from_raw_list < sj.limit * RAW_FACTOR
         /\ Len(sj.detailed_jobs) <= sj.limit
         /\ sj.consecutive_empty_pages < MAX_EMPTY_PAGES
    ELSE Len(sj.detailed_jobs) <= sj.limit

\* the `while' condition of search_jobs
LoopCondition(v, sj) ==
    IF v = "Anika"
    THEN /\ sj.jobs_processed_from_raw_list < sj.limit * RAW_FACTOR
         /\ Len(sj.detailed_jobs) < sj.limit
         /\ sj.consecutive_empty_pages < MAX_EMPTY_PAGES
    ELSE Len(sj.detailed_jobs) < sj.limit

\* head of the while loop: fetch the page at start_index, or leave the loop
While ==
    /\ pc = "while"
    /\ IF LoopCondition(variant, search)
       THEN /\ hist.pages < hist.page_cap
            /\ req' = StartRequest("page")
            /\ hist' = [hist EXCEPT !.pages = @ + 1,
                                    !.last_start = search.start_index]
            /\ pc' = "req_loop"
       ELSE /\ pc' = "sort"
            /\ UNCHANGED <<req, hist>>
    /\ UNCHANGED <<variant, proxy_rotator, search, main>>

\* mutant: the counter of empty pages is not incremented
OnEmptyPage_uncounted(v, sj) ==
    IF v = "Anika"
    THEN [search |-> [sj EXCEPT !.start_index = @ + EMPTY_PAGE_STEP], pc |-> "while"]
    ELSE [search |-> sj, pc |-> "sort"]

\* an empty page: the Anika variant counts it and goes on 25 further unless
\* it is the third in a row; the JobBot variant leaves the loop
OnEmptyPage(v, sj) ==
    IF v = "Anika"
    THEN LET counted == [sj EXCEPT !.consecutive_empty_pages = @ + 1]
         IN  IF counted.consecutive_empty_pages >= MAX_EMPTY_PAGES
             THEN [search |-> counted, pc |-> "sort"]
             ELSE [search |-> [counted EXCEPT !.start_index = @ + EMPTY_PAGE_STEP],
                   pc |-> "while"]
    ELSE [search |-> sj, pc |-> "sort"]

\* the page request has returned: abort, handle an empty page, or start the
\* for loop over the parsed records
PageResp ==
    /\ pc = "page_resp"
    /\ IF req.response = None
       THEN /\ pc' = "sort"
            /\ hist' = [hist EXCEPT !.page_failed = TRUE, !.slept_since_page = FALSE]
            /\ UNCHANGED search
       ELSE LET jobs_on_page == _parse_job_list(variant, req.response[1])
            IN  IF jobs_on_page = <<>>
                THEN /\ search' = OnEmptyPage(variant, search).search
                     /\ pc' = OnEmptyPage(variant, search).pc
                     /\ hist' = [hist EXCEPT !.empty_run = @ + 1,
                                             !.slept_since_page = FALSE]
                ELSE /\ search' = [search EXCEPT
                           !.consecutive_empty_pages = 0,
                           !.jobs_on_page = jobs_on_page, !.i = 1]
                     /\ pc' = "for"
                     /\ hist' = [hist EXCEPT !.empty_run = 0,
                                             !.slept_since_page = FALSE]
    /\ req' = InitReq
    /\ UNCHANGED <<variant, proxy_rotator, main>>

\* mutant: `>' for `>='
LimitReached_strict(sj) == Len(sj.detailed_jobs) > sj.limit

\* `if len(detailed_jobs) >= limit: break'
LimitReached(sj) == Len(sj.detailed_jobs) >= sj.limit

\* the apply-type filter left out: no record is ever skipped
SkipNotEasyApply_never(v, sj, job) == FALSE

\* `if easy_apply_only and job.get('applyType') != 'EASY_APPLY': continue', the
\* test the Anika variant makes before the detail fetch and again after the
\* merge of the details; the JobBot variant has no such parameter
SkipNotEasyApply(v, sj, job) ==
    v = "Anika" /\ sj.easy_apply_only /\ job["applyType"] # "EASY_APPLY"

\* head of `for job in jobs_on_page': the loop ends, or the record is skipped
\* on its list-page applyType, or its detail page is requested
For ==
    /\ pc = "for"
    /\ IF search.i > Len(search.jobs_on_page) \/ LimitReached(search)
       THEN /\ pc' = "page_end"
            /\ UNCHANGED <<search, req, hist>>
       ELSE LET job == search.jobs_on_page[search.i]
                counted == IF variant = "Anika"
                           THEN [search EXCEPT !.jobs_processed_from_raw_list = @ + 1]
                           ELSE search
            IN  IF SkipNotEasyApply(variant, search, job)
                THEN /\ search' = [counted EXCEPT !.i = @ + 1]
                     /\ pc' = "for"
                     /\ UNCHANGED <<req, hist>>
                ELSE /\ search' = counted
                     /\ req' = StartRequest("detail")
                     /\ hist' = [hist EXCEPT !.details = @ + 1]
                     /\ pc' = "req_loop"
    /\ UNCHANGED <<variant, proxy_rotator, main>>

\* _get_job_details after its request: {} when the fetch failed
_get_job_details(v, response) ==
    IF response = None THEN <<>> ELSE ParseDetail(v, response[1])

\* the detail request has returned: merge, check the applyType again, accept
\* the record and sleep
DetailResp ==
    /\ pc = "detail_resp"
    /\ LET job == Update(search.jobs_on_page[search.i],
                         _get_job_details(variant, req.response))
       IN  IF SkipNotEasyApply(variant, search, job)
           THEN /\ search' = [search EXCEPT !.i = @ + 1]
                /\ hist' = [hist EXCEPT !.slept_since_detail = FALSE]
           ELSE /\ search' = [search EXCEPT !.i = @ + 1,
                                            !.detailed_jobs = Append(@, job)]
                /\ hist' = IF variant = "Anika"
                           THEN Sleep([hist EXCEPT !.slept_since_detail = FALSE],
                                      "detail", 20, 40)
                           ELSE Sleep([hist EXCEPT !.slept_since_detail = FALSE],
                                      "detail", 15, 35)
    /\ pc' = "for"
    /\ req' = InitReq
    /\ UNCHANGED <<variant, proxy_rotator, main>>

\* after the for loop: advance the offset; the Anika variant sleeps
PageEnd ==
    /\ pc = "page_end"
    /\ search' = [search EXCEPT !.start_index = @ + Len(search.jobs_on_page)]
    /\ hist' = IF variant = "Anika" THEN Sleep(hist, "page", 30, 60) ELSE hist
    /\ pc' = "while"
    /\ UNCHANGED <<variant, proxy_rotator, req, main>>

\* detailed_jobs[:limit]
Truncate(s, limit) == SubSeq(s, 1, IF Len(s) < limit THEN Len(s) ELSE limit)

\* the temporary fields search_jobs adds to each record before the sort
TempKeys == {"_time_minutes", "_applicant_count"}

\* job['_time_minutes'] = ...; job['_applicant_count'] = ...
AddSortKeys(v, job) ==
    Update(job, [f \in TempKeys |->
                    IF f = "_time_minutes" THEN SortKey(v, job)[1]
                    ELSE SortKey(v, job)[2]])

\* mutant: the temporary fields are left in the record
DelSortKeys_keep(job) == job

\* del job['_time_minutes']; del job['_applicant_count']
DelSortKeys(job) == [f \in DOMAIN job \ TempKeys |-> job[f]]

\* the sorted list of search_jobs: the keys are stored in every record, the
\* list is sorted on the stored keys (SortKey of a record is what is stored
\* in it) and the keys are deleted again
SortedAndCleaned(v, jobs) ==
    LET keyed == [i \in 1..Len(jobs) |-> AddSortKeys(v, jobs[i])]
        sorted == SortJobs(v, keyed)
    IN  [i \in 1..Len(sorted) |-> DelSortKeys(sorted[i])]

\* after the while loop: sort keys, sort, drop the keys, truncate, return;
\* computing the keys can raise in the JobBot variant
Sort ==
    /\ pc = "sort"
    /\ IF SortRaises(variant, search.detailed_jobs)
       THEN search' = [search EXCEPT !.raised = TRUE]
       ELSE search' = [search EXCEPT
                !.detailed_jobs = SortedAndCleaned(variant, search.detailed_jobs),
                !.ret = <<Truncate(SortedAndCleaned(variant, search.detailed_jobs),
                                   search.limit)>>]
    /\ pc' = "returned"
    /\ UNCHANGED <<variant, proxy_rotator, req, main, hist>>


\* ------------------------------------------------------------------ __main__
TOTAL_JOBS_TARGET == 200

\* the number of searches __main__ runs: every (location, config) pair in the
\* Anika variant (bounded by MaxSearches here), one search in JobBot
NumSearches(v) == IF v = "Anika" THEN MaxSearches ELSE 1

\* the label main stores under 'search_config'
SearchLabel(n) == IF n = 0 THEN "config 1" ELSE IF n = 1 THEN "config 2" ELSE "config n"

\* os.makedirs fails and every variant goes on in the current directory
MainStart_always_fallback ==
    /\ pc = "main_start"
    /\ \E created \in BOOLEAN :
          /\ hist' = [hist EXCEPT !.makedirs = IF created THEN "ok" ELSE "failed"]
          /\ main' = IF created THEN main ELSE [main EXCEPT !.output_directory = "."]
    /\ pc' = "main_loop"
    /\ UNCHANGED <<variant, proxy_rotator, req, search>>

\* os.makedirs(output_directory): the Anika variant falls back to ".", the
\* JobBot variant calls exit()
MainStart ==
    /\ pc = "main_start"
    /\ \E created \in BOOLEAN :
          /\ hist' = [hist EXCEPT !.makedirs = IF created THEN "ok" ELSE "failed"]
          /\ IF created
             THEN /\ pc' = "main_loop"
                  /\ UNCHANGED main
             ELSE IF variant = "Anika"
                  THEN /\ main' = [main EXCEPT !.output_directory = "."]
                       /\ pc' = "main_loop"
                  ELSE /\ pc' = "exited"
                       /\ UNCHANGED main
    /\ UNCHANGED <<variant, proxy_rotator, req, search>>

\* the next search_jobs call, or the end of the searches
MainLoop ==
    /\ pc = "main_loop"
    /\ IF main.search_no < NumSearches(variant)
       THEN /\ search' = [InitSearch EXCEPT !.limit = main.limit,
                                            !.easy_apply_only = main.easy_apply_only]
            /\ hist' = [hist EXCEPT !.pages = 0, !.details = 0, !.page_failed = FALSE,
                                    !.empty_run = 0, !.last_start = NoOffset,
                                    !.slept_since_page = FALSE,
                                    !.slept_since_detail = FALSE]
            /\ pc' = "while"
       ELSE /\ pc' = "main_tail"
            /\ UNCHANGED <<search, hist>>
    /\ UNCHANGED <<variant, proxy_rotator, req, main>>

RECURSIVE TagAll(_, _)
TagAll(jobs, label) ==
    IF jobs = <<>> THEN <<>>
    ELSE <<Update(Head(jobs), [f \in {"search_config"} |-> label])>>
         \o TagAll(Tail(jobs), label)

\* search_jobs has returned or raised.  Anika: tag and collect the records and
\* sleep, or log the exception; both go on with the next search.  JobBot: an
\* exception is not caught.
MainRet ==
    /\ pc = "returned"
    /\ IF search.raised
       THEN /\ pc' = IF variant = "Anika" THEN "main_loop" ELSE "crashed"
            /\ main' = [main EXCEPT !.search_no = @ + 1]
            /\ UNCHANGED hist
       ELSE IF variant = "Anika"
            THEN /\ main' = [main EXCEPT
                        !.search_no = @ + 1,
                        !.all_scraped_jobs =
                            @ \o TagAll(search.ret[1], SearchLabel(main.search_no))]
                 /\ hist' = Sleep(hist, "search", 100, 150)
                 /\ pc' = "main_loop"
            ELSE /\ main' = [main EXCEPT !.search_no = @ + 1,
                                         !.final_jobs = search.ret[1]]
                 /\ UNCHANGED hist
                 /\ pc' = "main_tail"
    /\ UNCHANGED <<variant, proxy_rotator, req, search>>

\* `>=' for `>': on equal lengths the later record replaces the earlier
RECURSIVE Dedup_latest_on_tie(_, _)
Dedup_latest_on_tie(jobs, unique) ==
    IF jobs = <<>> THEN unique
    ELSE LET job == Head(jobs)
             at == {k \in 1..Len(unique) : unique[k]["jobUrl"] = job["jobUrl"]}
         IN  IF at = {} THEN Dedup_latest_on_tie(Tail(jobs), Append(unique, job))
             ELSE LET k == CHOOSE x \in at : TRUE
                  IN  IF Len(job["description"]) >= Len(unique[k]["description"])
                      THEN Dedup_latest_on_tie(Tail(jobs), [unique EXCEPT ![k] = job])
                      ELSE Dedup_latest_on_tie(Tail(jobs), unique)

\* unique_jobs: one record per jobUrl in order of first occurrence, replaced by
\* a later record with a strictly longer description
RECURSIVE Dedup(_, _)
Dedup(jobs, unique) ==
    IF jobs = <<>> THEN unique
    ELSE LET job == Head(jobs)
             at == {k \in 1..Len(unique) : unique[k]["jobUrl"] = job["jobUrl"]}
         IN  IF at = {} THEN Dedup(Tail(jobs), Append(unique, job))
             ELSE LET k == CHOOSE x \in at : TRUE
                  IN  IF Len(job["description"]) > Len(unique[k]["description"])
                      THEN Dedup(Tail(jobs), [unique EXCEPT ![k] = job])
                      ELSE Dedup(Tail(jobs), unique)

\* the file at the output path after the call (None when there is none): a
\* file is modelled by the list of records written to it.  save_to_json opens
\* the file for writing whatever the list; save_to_csv returns before the
\* open when the list is empty
save_to_json(jobs, file) == <<jobs>>
save_to_csv(jobs, file) == IF jobs = <<>> THEN file ELSE <<jobs>>

\* the end of __main__: (Anika) remove duplicates and sort; save when there
\* is something to save
MainTail ==
    /\ pc = "main_tail"
    /\ LET final_jobs == IF variant = "Anika"
                         THEN SortedAndCleaned(variant, Dedup(main.all_scraped_jobs, <<>>))
                         ELSE main.final_jobs
           capped == IF variant = "Anika" THEN Truncate(final_jobs, TOTAL_JOBS_TARGET)
                     ELSE final_jobs
       IN  main' = [main EXCEPT
                !.final_jobs = final_jobs,
                !.json_file = IF final_jobs # <<>> THEN save_to_json(capped, @) ELSE @,
                !.csv_file = IF final_jobs # <<>> THEN save_to_csv(capped, @) ELSE @]
    /\ pc' = "done"
    /\ UNCHANGED <<variant, proxy_rotator, req, search, hist>>

\* --------------------------------------------------------- specifications
\* Spec: the program as __main__ runs it.  No proxies are configured in either
\* variant, the Anika variant searches with easy_apply_only = True, and the
\* per-search limit (21 and 100 in the source) ranges over 0..MaxLimit.
Init ==
    /\ variant \in Variants
    /\ proxy_rotator = None
    /\ pc = "main_start"
    /\ req = InitReq
    /\ search = InitSearch
    /\ \E l \in 0..MaxLimit :
          main = [InitMain EXCEPT !.limit = l, !.easy_apply_only = (variant = "Anika")]
    /\ hist = InitHist

SearchNext ==
    \/ While
    \/ ReqLoop
    \/ Get
    \/ PageResp
    \/ For
    \/ DetailResp
    \/ PageEnd
    \/ Sort

Next ==
    \/ MainStart
    \/ MainLoop
    \/ SearchNext
    \/ MainRet
    \/ MainTail

Spec == Init /\ [][Next]_vars

\* SpecSearch: one call of search_jobs, for every limit up to MaxLimit and
\* either value of easy_apply_only (a parameter of the Anika variant only).
InitSearchCall ==
    /\ variant \in Variants
    /\ proxy_rotator = None
    /\ pc = "while"
    /\ req = InitReq
    /\ \E l \in 0..MaxLimit, e \in BOOLEAN :
          /\ (variant = "JobBot" => ~e)
          /\ search = [InitSearch EXCEPT !.limit = l, !.easy_apply_only = e]
    /\ main = InitMain
    /\ hist = InitHist

SpecSearch == InitSearchCall /\ [][SearchNext]_vars

\* SpecTerm: one call of search_jobs with a limit up to MaxTermLimit, followed
\* for more page requests than any such call can make (PageBound), so that
\* the end of the call is never the model's cut-off.
\* The most page requests of one call: the JobBot variant accepts a record on
\* every page it goes on from; the Anika variant processes a record on every
\* non-empty page, at most limit * 10 in all, and sees at most
\* MAX_EMPTY_PAGES - 1 empty pages before each of them
PageBound(v, limit) ==
    IF v = "Anika" THEN MAX_EMPTY_PAGES * limit * RAW_FACTOR ELSE limit

TermPages == PageBound("Anika", MaxTermLimit) + 1

InitTerm ==
    /\ variant \in Variants
    /\ proxy_rotator = None
    /\ pc = "while"
    /\ req = InitReq
    /\ \E l \in 0..MaxTermLimit, e \in BOOLEAN :
          /\ (variant = "JobBot" => ~e)
          /\ search = [InitSearch EXCEPT !.limit = l, !.easy_apply_only = e]
    /\ main = InitMain
    /\ hist = [InitHist EXCEPT !.page_cap = TermPages]

SpecTerm == InitTerm /\ [][SearchNext]_vars

\* every step of search_jobs that can be taken is taken eventually: the
\* single thread runs on, time.sleep and requests.get return
SpecTermFair == SpecTerm /\ WF_vars(SearchNext)

\* SpecRequest: calls of _make_request on a scraper built with or without
\* proxies.
ProxyLists == {<<"p1">>, <<"p1", "p2">>}

InitRequest ==
    /\ variant \in Variants
    /\ proxy_rotator \in {None} \cup {<<NewRotator(ps)>> : ps \in ProxyLists}
    /\ pc = "idle"
    /\ req = InitReq
    /\ search = InitSearch
    /\ main = InitMain
    /\ hist = InitHist

\* a caller invokes _make_request(url)
Call ==
    /\ pc = "idle"
    /\ hist.calls < MaxRequests
    /\ req' = StartRequest("call")
    /\ hist' = [hist EXCEPT !.calls = @ + 1]
    /\ pc' = "req_loop"
    /\ UNCHANGED <<variant, proxy_rotator, search, main>>

\* the caller has the result
CallDone ==
    /\ pc = "call_done"
    /\ pc' = "idle"
    /\ req' = InitReq
    /\ UNCHANGED <<variant, proxy_rotator, search, main, hist>>

RequestNext ==
    \/ Call
    \/ ReqLoop
    \/ Get
    \/ CallDone

SpecRequest == InitRequest /\ [][RequestNext]_vars

\* SpecRotator: a ProxyRotator built on any list of up to MaxProxies distinct endpoints
\* and driven by any sequence of get_next_proxy and mark_failed calls.
\* the configured lists: up to MaxProxies endpoints, each listed once
DistinctLists ==
    {ps \in SeqsUpTo(Endpoints, MaxProxies) : Cardinality(Range(ps)) = Len(ps)}

InitRotator ==
    /\ variant \in Variants
    /\ proxy_rotator \in {<<NewRotator(ps)>> : ps \in DistinctLists}
    /\ pc = "rotator"
    /\ req = InitReq
    /\ search = InitSearch
    /\ main = InitMain
    /\ hist = InitHist

\* the endpoints mark_failed is called with: configured ones or any other string
Markable == Endpoints \cup {""}

GetNextProxy ==
    /\ pc = "rotator"
    /\ hist.calls < MaxCalls
    /\ LET g == get_next_proxy(proxy_rotator[1])
       IN  /\ proxy_rotator' = <<g.rot>>
           /\ hist' = [hist EXCEPT !.calls = @ + 1, !.ret = g.ret,
                                   !.before = [rot |-> proxy_rotator[1], rr |-> hist.rr]]
    /\ pc' = "got"
    /\ UNCHANGED <<variant, req, search, main>>

\* the caller has the endpoint; the round-robin history takes note of it
Got ==
    /\ pc = "got"
    /\ LET e == hist.ret
           r == proxy_rotator[1]
           live == Range(r.proxies) \ r.failed_proxies
       IN  hist' = [hist EXCEPT
              !.before = NoBefore,
              !.rr = [f \in Endpoints |->
                        IF f = e THEN [open |-> TRUE, got |-> {}, intact |-> live]
                        ELSE IF hist.rr[f].open
                             THEN [hist.rr[f] EXCEPT !.got = @ \cup {e}]
                             ELSE hist.rr[f]]]
    /\ pc' = "rotator"
    /\ UNCHANGED <<variant, proxy_rotator, req, search, main>>

MarkFailed ==
    /\ pc = "rotator"
    /\ \E p \in Markable :
          /\ proxy_rotator' = <<mark_failed(proxy_rotator[1], p)>>
          /\ hist' = [hist EXCEPT
                 !.rr = [f \in Endpoints |-> [hist.rr[f] EXCEPT !.intact = @ \ {p}]]]
    /\ UNCHANGED <<variant, pc, req, search, main>>

RotatorNext ==
    \/ GetNextProxy
    \/ Got
    \/ MarkFailed

SpecRotator == InitRotator /\ [][RotatorNext]_vars

\* SpecSort: the sort phase of search_jobs and the tail of the Anika __main__
\* on every list of up to MaxSortLen records.  A record is a card of the list
\* page merged with the details of a fetched detail page or of a failed fetch.
SortCards == {Card1, Card3, Card5, Card6}

AcceptedPool(v) ==
    {Update(JobOfCard(v, c, c.href), d) :
        c \in SortCards, d \in {<<>>} \cup {ParseDetail(v, page) : page \in DetailPool}}

\* what the Anika searches of __main__ hand over: records with applyType
\* EASY_APPLY, tagged with the search they come from (one of two searches)
ScrapedPool ==
    {Update(j, [f \in {"search_config"} |-> SearchLabel(n)]) :
        j \in {a \in AcceptedPool("Anika") : a["applyType"] = "EASY_APPLY"},
        n \in {0, 1}}

InitSort ==
    /\ variant \in Variants
    /\ proxy_rotator = None
    /\ req = InitReq
    /\ hist = InitHist
    /\ \/ /\ pc = "sort"
          /\ main = InitMain
          /\ \E s \in SeqsUpTo(AcceptedPool(variant), MaxSortLen) :
                \E l \in Len(s)..MaxSortLen :
                   search = [InitSearch EXCEPT !.limit = l, !.detailed_jobs = s]
       \/ /\ pc = "main_tail"
          /\ variant = "Anika"
          /\ search = InitSearch
          /\ \E s \in SeqsUpTo(ScrapedPool, MaxSortLen) :
                main = [InitMain EXCEPT !.all_scraped_jobs = s,
                                        !.easy_apply_only = TRUE,
                                        !.search_no = NumSearches("Anika")]

SortNext ==
    \/ Sort
    \/ MainTail

SpecSort == InitSort /\ [][SortNext]_vars

\* SpecParse: the parsers applied to the texts and pages of bounded sets.
\* hist.fn names the function applied last, hist.arg what it was applied to
\* and hist.out what it returned; one application per run.

\* posted-time texts: an optional number, an optional word, "ago"; and ''
TimeWords ==
    {"minute", "minutes", "Minute", "hour", "hours", "Hours", "day", "days", "Day",
     "week", "weeks", "Week", "month", "months", "Month", "year", "years", "now"}

TimeInputs ==
    {[empty |-> TRUE, num |-> <<>>, word |-> <<>>]}
    \cup {[empty |-> FALSE, num |-> n, word |-> w] :
            n \in {<<>>} \cup {<<k>> : k \in 0..MaxTimeNumber},
            w \in {<<>>} \cup {<<x>> : x \in TimeWords}}

TimeText(inp) ==
    IF inp.empty THEN <<>>
    ELSE (IF inp.num = <<>> THEN <<>> ELSE <<Num(inp.num[1])>>)
         \o (IF inp.word = <<>> THEN <<>> ELSE <<Word(inp.word[1])>>)
         \o <<Word("ago")>>

\* applicant texts: '', 'Be among the first [N] applicants', '[N] applicants'
CountInputs ==
    {[empty |-> TRUE, first |-> FALSE, num |-> <<>>]}
    \cup {[empty |-> FALSE, first |-> f, num |-> n] :
            f \in BOOLEAN, n \in {<<>>} \cup {<<k>> : k \in 0..MaxTimeNumber}}

CountText(inp) ==
    IF inp.empty THEN <<>>
    ELSE (IF inp.first THEN <<Word("Be among the first")>> ELSE <<>>)
         \o (IF inp.num = <<>> THEN <<>> ELSE <<Num(inp.num[1])>>)
         \o <<Word("applicants")>>

\* list items: complete ones whose URL has a query string or ends with the
\* job ID, and items without link, without base-card, without an ID in the URL
Item1 == Card1
Item2 == Card(TRUE, TRUE, Url("view/analyst-105", TRUE, FALSE), FALSE, T_1day, <<>>)
Item3 == Card4
Item4 == Card(FALSE, TRUE, Url("view/analyst-106?refId=f", TRUE, TRUE), TRUE, T_1day, <<>>)
Item5 == Card(TRUE, TRUE, Url("jobs/search", FALSE, FALSE), TRUE, T_1day, <<>>)
ItemPool == {Item1, Item2, Item3, Item4, Item5}

ListPages ==
    {[container |-> c, cards |-> cs] : c \in BOOLEAN, cs \in SeqsUpTo(ItemPool, MaxCards)}

\* detail pages: every combination of description, apply button and links of
\* the top card (a tracked apply link is a link of the top card)
DetailPages ==
    {pg \in {Detail(d, b, l, t) : d \in {<<>>, <<"d">>}, b \in {"none", "easy", "plain"},
                                  l \in {"none", "linkedin", "offsite"}, t \in BOOLEAN} :
        pg.tracked_link => pg.first_link # "none"}

InitParse ==
    /\ variant \in Variants
    /\ proxy_rotator = None
    /\ pc = "parse"
    /\ req = InitReq
    /\ search = InitSearch
    /\ main = InitMain
    /\ hist = InitHist

ParseTime ==
    /\ pc = "parse"
    /\ \E inp \in TimeInputs :
          hist' = [hist EXCEPT !.fn = "time", !.arg = inp,
                               !.out = _parse_time_to_minutes(TimeText(inp))]
    /\ pc' = "parsed"
    /\ UNCHANGED <<variant, proxy_rotator, req, search, main>>

ParseCount ==
    /\ pc = "parse"
    /\ \E inp \in CountInputs :
          hist' = [hist EXCEPT !.fn = "count", !.arg = inp,
                               !.out = _parse_applicant_count(variant, CountText(inp))]
    /\ pc' = "parsed"
    /\ UNCHANGED <<variant, proxy_rotator, req, search, main>>

ParseList ==
    /\ pc = "parse"
    /\ \E html \in ListPages :
          hist' = [hist EXCEPT !.fn = "list", !.arg = html,
                               !.out = _parse_job_list(variant, html)]
    /\ pc' = "parsed"
    /\ UNCHANGED <<variant, proxy_rotator, req, search, main>>

\* details = self._get_job_details(job['jobUrl']); job.update(details), on a
\* record of the list page and a detail page that was fetched
MergeDetails ==
    /\ pc = "parse"
    /\ \E card \in {Item1, Item2}, page \in DetailPages :
          LET job == JobOfCard(variant, card, card.href)
          IN  hist' = [hist EXCEPT
                  !.fn = "details", !.arg = [job |-> job, page |-> page],
                  !.out = Update(job, _get_job_details(variant, <<page>>))]
    /\ pc' = "parsed"
    /\ UNCHANGED <<variant, proxy_rotator, req, search, main>>

\* the record lists handed to the exporter (the empty list among them) and
\* the file at the output path before the call: absent, or written earlier
ExportLists == SeqsUpTo({JobOfCard(variant, c, c.href) : c \in {Item1, Item2}}, 2)
ExportFiles == {None, <<<<>>>>, <<<<JobOfCard(variant, Item1, Item1.href)>>>>}

\* scraper.save_to_json(jobs, filename)
SaveJson ==
    /\ pc = "parse"
    /\ \E jobs \in ExportLists, file \in ExportFiles :
          hist' = [hist EXCEPT !.fn = "save_to_json",
                               !.arg = [jobs |-> jobs, file |-> file],
                               !.out = save_to_json(jobs, file)]
    /\ pc' = "parsed"
    /\ UNCHANGED <<variant, proxy_rotator, req, search, main>>

\* scraper.save_to_csv(jobs, filename)
SaveCsv ==
    /\ pc = "parse"
    /\ \E jobs \in ExportLists, file \in ExportFiles :
          hist' = [hist EXCEPT !.fn = "save_to_csv",
                               !.arg = [jobs |-> jobs, file |-> file],
                               !.out = save_to_csv(jobs, file)]
    /\ pc' = "parsed"
    /\ UNCHANGED <<variant, proxy_rotator, req, search, main>>

ParseNext ==
    \/ ParseTime
    \/ ParseCount
    \/ ParseList
    \/ MergeDetails
    \/ SaveJson
    \/ SaveCsv

SpecParse == InitParse /\ [][ParseNext]_vars

\* =================================================================== claims
InRequest == pc \in {"req_loop", "req_get"}
Returned == pc \in {"page_resp", "detail_resp", "call_done"}
AfterSearchLoop == pc \in {"sort", "returned", "main_loop", "main_tail", "done", "crashed"}

\* the failed attempts the claims speak of, and what a variant's status check
\* lets through as a success
Failure(v, o) ==
    \/ o \in {"s429", "s403", "s500", "proxyerr", "timeout", "connerr", "reqexc"}
    \/ v = "Anika" /\ o \in {"s999", "authwall"}
Success(v, o) ==
    \/ o = "ok"
    \/ v = "JobBot" /\ o \in {"s999", "authwall"}

\* C1: one call of _make_request issues at most max_retries GETs (5 Anika, 3
\* JobBot); while it runs every GET so far has failed, so a success ends it
\* with that response and no further GET; it returns None exactly when all
\* max_retries attempts failed; no failure leaves it as an exception.
C1_BoundedRetries ==
    LET n == IF variant = "Anika" THEN 5 ELSE 3
    IN  /\ req.gets <= n
        /\ ~req.raised /\ pc # "crashed"
        /\ InRequest =>
              /\ req.response = None
              /\ req.gets = req.attempt
              /\ req.gets > 0 => Failure(variant, req.last)
        /\ Returned =>
              IF req.response # None
              THEN Success(variant, req.last) /\ req.gets = req.attempt + 1
              ELSE req.gets = n /\ req.attempt = n /\ Failure(variant, req.last)

\* C1 witness: a call through a proxy returns the response of its third GET
C1_Witness ==
    /\ pc = "call_done" /\ req.response # None /\ req.gets = 3
    /\ req.proxies # NoProxy

\* C4 as claimed: after every 429 the cooldown is slept and another attempt of
\* the same request follows
C4_AlwaysRetried ==
    (pc = "req_loop" /\ req.last = "s429") =>
        /\ req.slept.kind = "cooldown"
        /\ req.attempt < max_retries(variant)

\* C4 as amended: after a 429 the fixed cooldown is slept (120 s Anika, 60 s
\* JobBot); then another attempt of the same request is issued if fewer than
\* max_retries attempts were made, and the call returns None if the 429 answered
\* the last attempt.
C4_CooldownThenRetry ==
    /\ [](  (pc = "req_loop" /\ req.last = "s429") =>
                req.slept = [kind |-> "cooldown",
                             lo |-> IF variant = "Anika" THEN 1200 ELSE 600,
                             hi |-> IF variant = "Anika" THEN 1200 ELSE 600])
    /\ [][ (pc = "req_loop" /\ req.last = "s429") =>
              IF req.gets < (IF variant = "Anika" THEN 5 ELSE 3)
              THEN pc' = "req_get" /\ req'.kind = req.kind
                   /\ req'.attempt = req.gets /\ req'.response = None
              ELSE Returned' /\ req'.response = None ]_vars

\* C4 witness: another attempt has begun after a 429
C4_Witness == pc = "req_get" /\ req.last = "s429" /\ req.attempt >= 1

\* C5: after an attempt through a proxy failed with a proxy error, a
\* connection error or a timeout, that proxy is in the failed set when the
\* loop goes on; without a proxy there is no failed set to change.
C5_ProxyMarkedFailed ==
    (pc = "req_loop" /\ req.last \in {"proxyerr", "connerr", "timeout"}) =>
        IF req.proxies # NoProxy
        THEN req.proxies \in proxy_rotator[1].failed_proxies
        ELSE proxy_rotator = None

\* C6: get_next_proxy on a non-empty list returns a configured endpoint that
\* is not in the failed set when the call returns, and empties the failed set
\* if every configured endpoint was in it when the call started; on an empty
\* list it returns None and changes neither the index nor the failed set.
C6_NextProxyNotFailed ==
    pc = "got" =>
        LET was == hist.before.rot
            now == proxy_rotator[1]
        IN  IF was.proxies # <<>>
            THEN /\ hist.ret \in Range(was.proxies)
                 /\ hist.ret \notin now.failed_proxies
                 /\ Range(was.proxies) \subseteq was.failed_proxies
                        => now.failed_proxies = {}
            ELSE /\ hist.ret = NoProxy
                 /\ now.current_index = was.current_index
                 /\ now.failed_proxies = was.failed_proxies

\* C6 witness: a call that found all of two or more endpoints failed
C6_Witness ==
    /\ pc = "got"
    /\ Cardinality(Range(hist.before.rot.proxies)) >= 2
    /\ Range(hist.before.rot.proxies) \subseteq hist.before.rot.failed_proxies
    /\ proxy_rotator[1].failed_proxies = {}

\* C7: when get_next_proxy returns an endpoint it has returned before, every
\* other endpoint that stayed out of the failed set since then has been
\* returned in between.
C7_RoundRobin ==
    (pc = "got" /\ hist.ret # NoProxy) =>
        LET since == hist.before.rr[hist.ret]
        IN  since.open => (since.intact \ {hist.ret}) \subseteq since.got

\* C2: while the second or a later page of a search is being fetched, a
\* politeness sleep has taken place since the page fetch before it returned.
C2_SleepBetweenPages ==
    (req.kind = "page" /\ hist.pages >= 2) => hist.slept_since_page

\* C3: while the second or a later detail page of a search is being fetched, a
\* politeness sleep has taken place since the detail fetch before it returned.
C3_SleepBetweenDetails ==
    (req.kind = "detail" /\ hist.details >= 2) => hist.slept_since_detail

\* C8: the list of accepted records never holds more than limit records, no
\* detail page is requested once limit records are accepted, and search_jobs
\* returns the whole list, which has at most limit records.
C8_AtMostLimit ==
    /\ Len(search.detailed_jobs) <= search.limit
    /\ req.kind = "detail" => Len(search.detailed_jobs) < search.limit
    /\ search.ret # None =>
          /\ Len(search.ret[1]) <= search.limit
          /\ search.ret[1] = search.detailed_jobs

\* C8 witness: search_jobs returns limit records and leaves a record of the
\* last page without a detail fetch
C8_Witness ==
    /\ pc = "returned" /\ search.ret # None
    /\ search.limit >= 1 /\ Len(search.ret[1]) = search.limit
    /\ search.i <= Len(search.jobs_on_page)

IsSortedByKey(v, jobs) ==
    \A k \in 1..(Len(jobs) - 1) : KeyLE(SortKey(v, jobs[k]), SortKey(v, jobs[k + 1]))

\* C9: once a page fetch of a search has failed, the search issues no further
\* request, does not raise, and returns its accepted records in sorted order;
\* the Anika main loop goes on with the next search.
C9_PageFailureEndsSearch ==
    hist.page_failed =>
        /\ AfterSearchLoop /\ req.kind = "none"
        /\ ~search.raised /\ pc # "crashed"
        /\ pc # "sort" =>
              /\ search.ret = <<search.detailed_jobs>>
              /\ IsSortedByKey(variant, search.ret[1])

\* C10: an empty page leads to the normal end of the loop or to the next page,
\* never to an error.  JobBot: the first empty page ends the loop.  Anika: the
\* counter equals the number of empty pages fetched in a row (a non-empty page
\* resets it), an empty page that is not the third in a row advances the offset
\* by 25 and the loop goes on, the third ends the loop; so at most 3 empty pages
\* are fetched in a row.
C10_EmptyPages ==
    /\ [](  /\ hist.empty_run <= 3
            /\ variant = "Anika" => search.consecutive_empty_pages = hist.empty_run
            /\ variant = "JobBot" => (hist.empty_run >= 1 => pc \in {"sort", "returned"})
            /\ hist.empty_run >= 3 => pc \in {"sort", "returned"})
    /\ [][ hist'.empty_run = hist.empty_run + 1 =>
              /\ ~hist'.page_failed /\ ~search'.raised
              /\ IF variant = "Anika" /\ hist'.empty_run < 3
                 THEN /\ pc' = "while"
                      /\ search'.start_index = search.start_index + 25
                      /\ LoopCondition(variant, search')
                 ELSE pc' = "sort" ]_vars

\* C10 witness: in the Anika variant a search ends on three empty pages in a
\* row that follow a non-empty page
C10_Witness ==
    /\ variant = "Anika" /\ pc = "sort"
    /\ hist.empty_run = 3 /\ hist.pages = 4

\* the records of a list that passed the apply-type filter
AllEasyApply(jobs) == \A k \in 1..Len(jobs) : jobs[k]["applyType"] = "EASY_APPLY"

\* C11: in the Anika variant with easy_apply_only, a detail page is requested
\* only for a record whose list-page applyType is EASY_APPLY, a record is
\* accepted only after its detail request, with applyType EASY_APPLY both
\* before the fetch and after the merge, and every accepted or returned record
\* has applyType EASY_APPLY.
C11_EvaluatedTwice ==
    /\ []( (variant = "Anika" /\ search.easy_apply_only) =>
              /\ req.kind = "detail" =>
                    search.jobs_on_page[search.i]["applyType"] = "EASY_APPLY"
              /\ AllEasyApply(search.detailed_jobs)
              /\ search.ret # None => AllEasyApply(search.ret[1]) )
    /\ [][ (variant = "Anika" /\ search.easy_apply_only
            /\ Len(search'.detailed_jobs) > Len(search.detailed_jobs)) =>
              /\ pc = "detail_resp"
              /\ search.jobs_on_page[search.i]["applyType"] = "EASY_APPLY"
              /\ search'.detailed_jobs[Len(search'.detailed_jobs)]["applyType"]
                    = "EASY_APPLY"
              /\ Len(search'.detailed_jobs) = Len(search.detailed_jobs) + 1 ]_vars

\* C11 witness: a search with easy_apply_only returns a record after it has
\* skipped or rejected another one
C11_Witness ==
    /\ variant = "Anika" /\ search.easy_apply_only /\ pc = "returned"
    /\ search.ret # None /\ search.ret[1] # <<>>
    /\ search.jobs_processed_from_raw_list > Len(search.ret[1])

\* the bijections of 1..n
Perms(n) == {f \in [1..n -> 1..n] : \A i, j \in 1..n : i # j => f[i] # f[j]}

\* out holds the records of inp in nondecreasing order of the key, records
\* with equal keys in the order they have in inp
StableSortOf(v, out, inp) ==
    /\ Len(out) = Len(inp)
    /\ \E p \in Perms(Len(inp)) :
          /\ \A k \in 1..Len(out) : out[k] = inp[p[k]]
          /\ \A j, k \in 1..Len(out) :
                j < k => /\ KeyLE(SortKey(v, out[j]), SortKey(v, out[k]))
                         /\ SortKey(v, out[j]) = SortKey(v, out[k]) => p[j] < p[k]

\* the positions in a list of scraped records of the records with URL u
WithUrl(all, u) == {k \in 1..Len(all) : all[k]["jobUrl"] = u}

\* the record of URL u with the longest description, the earliest of them
BestOf(all, u) ==
    all[CHOOSE k \in WithUrl(all, u) :
            \A j \in WithUrl(all, u) :
                \/ Len(all[j]["description"]) < Len(all[k]["description"])
                \/ Len(all[j]["description"]) = Len(all[k]["description"]) /\ k <= j]

\* the positions where a URL occurs for the first time
FirstOcc(all) == {k \in 1..Len(all) : \A j \in 1..(k - 1) : all[j]["jobUrl"] # all[k]["jobUrl"]}

\* one record per URL, the best one, in the order in which the URLs first occur
KeptRecords(all) ==
    [i \in 1..Cardinality(FirstOcc(all)) |->
        BestOf(all, all[CHOOSE k \in FirstOcc(all) :
                          Cardinality({j \in FirstOcc(all) : j <= k}) = i]["jobUrl"])]

\* C12: the list search_jobs returns holds the accepted records in
\* nondecreasing order of (minutes, applicant count), records with equal keys
\* in their order of acceptance; the final list of __main__ holds the records
\* left by the deduplication in the same way.
C12_StableSort ==
    /\ [][ (pc = "sort" /\ ~search'.raised) =>
              /\ search'.ret # None
              /\ StableSortOf(variant, search'.ret[1], search.detailed_jobs) ]_vars
    /\ [][ (pc = "main_tail" /\ variant = "Anika") =>
              StableSortOf(variant, main'.final_jobs,
                           KeptRecords(main.all_scraped_jobs)) ]_vars

\* C12 witness: a sorted list of three records in which two records with the
\* same key follow a record that was accepted after them
C12_Witness ==
    /\ pc = "returned" /\ search.ret # None /\ Len(search.ret[1]) = 3
    /\ SortKey(variant, search.ret[1][2]) = SortKey(variant, search.ret[1][3])
    /\ search.ret[1][2] # search.ret[1][3]
    /\ SortKey(variant, search.ret[1][1]) # SortKey(variant, search.ret[1][2])

\* whether _parse_time_to_minutes finds a number and a unit in a postedTime
ParseableTime(time_str) ==
    /\ SearchDigits(time_str) # <<>>
    /\ \E u \in {"minute", "hour", "day", "week", "month"} : Contains(time_str, u)

\* C13: in the list search_jobs returns, every record whose postedTime cannot
\* be parsed comes after every record whose postedTime is a number and a unit.
C13_UnparseableLast ==
    (pc = "returned" /\ search.ret # None) =>
        \A j, k \in 1..Len(search.ret[1]) :
            (ParseableTime(search.ret[1][j]["postedTime"])
             /\ ~ParseableTime(search.ret[1][k]["postedTime"])) => j < k

\* C14: the final list of __main__ has no two records with the same jobUrl,
\* holds every scraped jobUrl, and holds for each URL the scraped record with
\* the longest description, the earliest one of these.
C14_Dedup ==
    [][ (pc = "main_tail" /\ variant = "Anika") =>
          LET all == main.all_scraped_jobs
              final == main'.final_jobs
          IN  /\ \A j, k \in 1..Len(final) :
                    j # k => final[j]["jobUrl"] # final[k]["jobUrl"]
              /\ {final[k]["jobUrl"] : k \in 1..Len(final)}
                    = {all[k]["jobUrl"] : k \in 1..Len(all)}
              /\ \A k \in 1..Len(final) :
                    final[k] = BestOf(all, final[k]["jobUrl"]) ]_vars

\* C14 witness: of three scraped records with one URL the second one is kept,
\* whose description is longer than the first and as long as the third
C14_Witness ==
    /\ pc = "done" /\ variant = "Anika"
    /\ Len(main.all_scraped_jobs) = 3 /\ Len(main.final_jobs) = 1
    /\ main.final_jobs[1] = main.all_scraped_jobs[2]
    /\ main.all_scraped_jobs[2] # main.all_scraped_jobs[3]
    /\ Len(main.all_scraped_jobs[1]["description"])
          < Len(main.all_scraped_jobs[2]["description"])
    /\ Len(main.all_scraped_jobs[3]["description"])
          = Len(main.all_scraped_jobs[2]["description"])

\* the positions of the program inside a search_jobs call
InSearch ==
    pc \in {"while", "req_loop", "req_get", "page_resp", "for", "detail_resp",
            "page_end", "sort", "returned"}

\* C15 as claimed: once the output directory could not be created, no
\* search_jobs call and no GET takes place, in either variant.
C15_AbortsBeforeNetwork ==
    hist.makedirs = "failed" =>
        /\ ~InSearch /\ main.search_no = 0
        /\ req = InitReq /\ hist.pages = 0 /\ hist.details = 0

\* C15 as amended: when the output directory cannot be created the JobBot
\* variant exits with no search_jobs call, no GET and no file written; the
\* Anika variant takes the current directory as output directory and goes on
\* with its searches.  No variant exits when the directory was created.
C15_AbortOrFallback ==
    /\ (hist.makedirs = "failed" /\ variant = "JobBot") =>
          /\ pc = "exited" /\ main.search_no = 0 /\ search = InitSearch
          /\ req = InitReq /\ hist.pages = 0 /\ hist.details = 0
          /\ main.json_file = None /\ main.csv_file = None
    /\ (hist.makedirs = "failed" /\ variant = "Anika") =>
          pc # "exited" /\ main.output_directory = "."
    /\ hist.makedirs # "failed" => pc # "exited" /\ main.output_directory = "P:"

\* C15 witness: the Anika variant, started without its output directory, has
\* fetched pages and saved records
C15_Witness ==
    /\ variant = "Anika" /\ hist.makedirs = "failed" /\ pc = "done"
    /\ main.json_file # None /\ main.final_jobs # <<>>

\* the non-jitter part of the delay before attempts 2, 3, ... in seconds, and
\* the jitter range in seconds, as the claim gives them
BackoffSeconds(v) == IF v = "Anika" THEN <<10, 20, 40, 80>> ELSE <<5, 10>>
JitterSeconds(v) == IF v = "Anika" THEN <<2, 5>> ELSE <<0, 1>>

\* C16: when the first GET of a request is issued the requester has not
\* slept; when the k-th GET (k >= 2) is issued the last sleep was the backoff
\* sleep of retry_delay * backoff_factor^(k-2) seconds plus a jitter of 2..5 s
\* (Anika) or 0..1 s (JobBot): 10, 20, 40, 80 and 5, 10 seconds.
C16_BackoffDelay ==
    pc = "req_get" =>
        IF req.attempt = 0
        THEN req.slept = NoSleep
        ELSE /\ req.attempt <= Len(BackoffSeconds(variant))
             /\ req.slept =
                  [kind |-> "backoff",
                   lo |-> 10 * (BackoffSeconds(variant)[req.attempt] + JitterSeconds(variant)[1]),
                   hi |-> 10 * (BackoffSeconds(variant)[req.attempt] + JitterSeconds(variant)[2])]

\* C16 witness: the last attempt of the Anika variant follows a sleep of 80 s
\* plus jitter
C16_Witness ==
    /\ pc = "req_get" /\ variant = "Anika" /\ req.attempt = 4
    /\ req.slept.kind = "backoff" /\ req.slept.lo = 820

\* C17: _parse_applicant_count does not raise; it returns N for 'Be among the
\* first N applicants' and 0 for an empty text and for a text without digits,
\* 'Be among the first applicants' included, in both variants.
C17_ApplicantCount ==
    hist.fn = "count" =>
        /\ ~hist.out.raised
        /\ (~hist.arg.empty /\ hist.arg.first /\ hist.arg.num # <<>>) =>
              hist.out.val = hist.arg.num[1]
        /\ (hist.arg.empty \/ hist.arg.num = <<>>) => hist.out.val = 0

\* the minutes of the unit a word names, 0 for a word that names none
UnitMinutes(w) ==
    CASE w \in {"minute", "minutes", "Minute"} -> 1
      [] w \in {"hour", "hours", "Hours"} -> 60
      [] w \in {"day", "days", "Day"} -> 1440
      [] w \in {"week", "weeks", "Week"} -> 10080
      [] w \in {"month", "months", "Month"} -> 43200
      [] OTHER -> 0

\* C18: _parse_time_to_minutes returns n times 1, 60, 1440, 10080, 43200 for
\* the text of a number n and the unit minute, hour, day, week, month, and
\* 999999 for an empty text, a text without a number and a text without unit.
C18_TimeToMinutes ==
    hist.fn = "time" =>
        IF hist.arg.empty \/ hist.arg.num = <<>> \/ hist.arg.word = <<>>
        THEN hist.out = 999999
        ELSE IF UnitMinutes(hist.arg.word[1]) = 0
             THEN hist.out = 999999
             ELSE hist.out = hist.arg.num[1] * UnitMinutes(hist.arg.word[1])

\* C18 witness: '3 Week ago' gives 30240 minutes
C18_Witness ==
    /\ hist.fn = "time" /\ ~hist.arg.empty
    /\ hist.arg.num = <<3>> /\ hist.arg.word = <<"Week">> /\ hist.out = 30240

\* the list items of a page (in the Anika variant the items of the results
\* list) that have a base-card, a link and a numeric ID in the link's URL
CompleteItems(v, html) ==
    SelectSeq(IF v = "Anika" /\ ~html.container THEN <<>> ELSE html.cards,
              LAMBDA c : c.base_card /\ c.link_tag /\ c.href.id)

\* C19: _parse_job_list returns one record for each complete list item, in
\* page order, and nothing for the other items.
C19_ListParser ==
    hist.fn = "list" =>
        LET items == CompleteItems(variant, hist.arg)
        IN  /\ Len(hist.out) = Len(items)
            /\ \A k \in 1..Len(items) :
                  k <= Len(hist.out) =>
                     /\ hist.out[k]["jobUrl"] = items[k].href
                     /\ hist.out[k]["postedTime"] = items[k].time_tag

\* the apply type the three-tier fallback gives a detail page; the external
\* apply link is the one the variant looks for
FallbackApplyType(v, page) ==
    IF page.apply_button = "easy" THEN "EASY_APPLY"
    ELSE IF page.apply_button = "plain" THEN "EXTERNAL"
    ELSE IF (v = "Anika" /\ page.tracked_link) \/ (v = "JobBot" /\ page.first_link = "offsite")
         THEN "EXTERNAL"
         ELSE "UNKNOWN"

\* C20: after the merge of a fetched detail page the record's applyType is the
\* one of the three-tier fallback, so one of EASY_APPLY, EXTERNAL, UNKNOWN.
C20_ApplyTypeFallback ==
    hist.fn = "details" =>
        /\ hist.out["applyType"] = FallbackApplyType(variant, hist.arg.page)
        /\ hist.out["applyType"] \in {"EASY_APPLY", "EXTERNAL", "UNKNOWN"}

\* the fields holding a text (a sequence of tokens or of characters) and the
\* fields holding a URL; every other field holds a plain string
TextFields == {"postedTime", "applicationsCount", "description"}
UrlFields == {"jobUrl", "applyUrl"}
Tokens == [isnum : BOOLEAN, n : Nat, w : STRING]

\* the value of field f is a string (possibly the empty one), never None
IsString(f, x) ==
    IF f \in UrlFields THEN x \in [text : STRING, id : BOOLEAN, query : BOOLEAN]
    ELSE IF f = "description" THEN x \in Seq(STRING)
    ELSE IF f \in TextFields THEN x \in Seq(Tokens)
    ELSE x \in STRING

\* exactly the 20 fields of the list parser, each with a string value
IsJobRecord(job) ==
    /\ DOMAIN job = JobFields
    /\ Cardinality(DOMAIN job) = 20
    /\ \A f \in JobFields : IsString(f, job[f])

\* C21: every record search_jobs has accepted (a list record merged with its
\* detail result, the empty result of a failed detail fetch included) and
\* every record it returns has exactly the 20 fields of the list parser, each
\* with a string value; no returned record has a temporary sort key.
C21_TwentyFields ==
    /\ pc # "returned" =>
          \A i \in 1..Len(search.detailed_jobs) : IsJobRecord(search.detailed_jobs[i])
    /\ search.ret # None =>
          \A i \in 1..Len(search.ret[1]) :
              /\ IsJobRecord(search.ret[1][i])
              /\ DOMAIN search.ret[1][i] \cap TempKeys = {}

\* C21 witness: the JobBot variant returns two records, one merged with a
\* fetched detail page and one whose detail fetch failed (its applyType is the
\* empty string of the list parser, its description is empty)
C21_Witness ==
    /\ variant = "JobBot" /\ pc = "returned" /\ search.ret # None
    /\ \E i, k \in 1..Len(search.ret[1]) :
          /\ search.ret[1][i]["applyType"] = "" /\ search.ret[1][i]["description"] = <<>>
          /\ search.ret[1][k]["applyType"] # "" /\ search.ret[1][k]["description"] # <<>>

\* C22: a call of save_to_json or save_to_csv with an empty list leaves the
\* file at the output path as it was: none is created, none is overwritten.
C22_EmptyExportNoOp ==
    (hist.fn \in {"save_to_json", "save_to_csv"} /\ hist.arg.jobs = <<>>) =>
        hist.out = hist.arg.file

\* C23: in the Anika variant the number of raw list records one search_jobs
\* call has processed never exceeds the safety limit limit * 10.
C23_RawLimit ==
    variant = "Anika" =>
        search.jobs_processed_from_raw_list <= search.limit * RAW_FACTOR

\* C24: one call of search_jobs makes at most PageBound page requests, every
\* page request after the first is for an offset greater than the one before
\* it, and the call ends (it returns or raises).
C24_Terminates ==
    /\ [](hist.pages <= PageBound(variant, search.limit))
    /\ [][hist'.pages = hist.pages + 1 => search.start_index > hist.last_start]_vars
    /\ <>(pc = "returned")

\* C24 witness: the Anika variant with easy_apply_only has returned after
\* limit * 10 page requests, every page held one record (the offset grew by
\* one per page) and no record was accepted
C24_Witness ==
    /\ variant = "Anika" /\ search.easy_apply_only /\ search.limit > 0
    /\ pc = "returned" /\ search.ret = <<<<>>>>
    /\ hist.pages = search.limit * RAW_FACTOR
    /\ search.start_index = hist.pages
    /\ search.jobs_processed_from_raw_list = hist.pages

====
